---- MODULE Spec2Model ----
(***************************************************************************)
(* The page layout editor of src/App.tsx and src/components/               *)
(* BlockRenderer.tsx as a state machine: the React state of App (blocks,   *)
(* margin, the drag indices, the editing id), the pointer gesture the      *)
(* browser is in, and one action per event handler.                        *)
(*                                                                         *)
(* JavaScript values: array indices are 0-based as in the source (index i  *)
(* of an array is element i + 1 of the sequence), a null id is the string  *)
(* Null and a null index is NullIndex, and an object is a record with      *)
(* exactly the fields the object has: an optional field that is undefined  *)
(* is not in the record's domain.  TLA+ strings are ASCII, so the literals *)
(* of the source are written in pinyin:                                    *)
(* "haoping" \o n \o "ci" is the template `好评${n}次`, "xinwenben" is     *)
(* '新文本', "biaoyangbiao" is '1月份网络平台表扬表'.                      *)
(***************************************************************************)
EXTENDS Integers, Sequences, FiniteSets, TLC

VARIABLES
    blocks,             \* useState<Block[]>([])              App.tsx:27
    margin,             \* useState(5)                        App.tsx:28
    draggedBlockIndex,  \* useState<number | null>(null)      App.tsx:35
    targetBlockIndex,   \* useState<number | null>(null)      App.tsx:36
    editingBlockId,     \* useState<string | null>(null)      App.tsx:37
    gesture,            \* what the pointer is doing: idle, an internal drag,
                        \* an external file drag, or a crop drag with the
                        \* values handleMouseDownResize captured
    last,               \* the handler that ran last and how it ended: the
                        \* branch it took, or the error it raised
    pending,            \* the saves and exports that are awaiting their
                        \* images, each with the blocks and the margin of the
                        \* render whose handler started it
    written             \* the file FileSaver.saveAs was last called with

vars == <<blocks, margin, draggedBlockIndex, targetBlockIndex, editingBlockId,
          gesture, last, pending, written>>

Null == "null"

(***************************************************************************)
(* Bounds of the exploration.                                              *)
(***************************************************************************)
MaxLen == 3        \* the toolbar adds no block beyond this length, and the
                   \* documents a specification starts from are no longer
MaxDropLen == 4    \* dropped files add no block beyond this length
MaxFiles == 2      \* files in one upload or one external drop

(***************************************************************************)
(* types.ts                                                                *)
(***************************************************************************)
IMAGE == "IMAGE"
TEXT_ROW == "TEXT_ROW"
TITLE == "TITLE"
BlockType == {IMAGE, TEXT_ROW, TITLE}

\* The outcomes of generateId(): Math.random().toString(36).substr(2, 9).
\* Nothing makes two calls differ, so a call yields any id.
Ids == {"id1", "id2"}

\* A Block is a record with exactly the fields the object has: id, type and
\* content always, subContent and height when present.
Has(b, f) == f \in DOMAIN b

(***************************************************************************)
(* JavaScript arrays and objects.                                          *)
(***************************************************************************)
\* array.splice(start, deleteCount) on a copy: what is left and what was
\* removed.  A start beyond the end removes nothing.
SpliceOut(array, start, deleteCount) ==
    LET from == IF start > Len(array) THEN Len(array) ELSE start
        upto == IF from + deleteCount > Len(array) THEN Len(array)
                ELSE from + deleteCount
    IN  [rest |-> SubSeq(array, 1, from) \o SubSeq(array, upto + 1, Len(array)),
         removed |-> SubSeq(array, from + 1, upto)]

\* array[index] = item on a copy.  An index at the end appends, an index
\* beyond it leaves holes, which read as undefined.
Hole == [undefined |-> TRUE]
AssignAt(array, index, item) ==
    [k \in 1..(IF index + 1 > Len(array) THEN index + 1 ELSE Len(array)) |->
        IF k = index + 1 THEN item
        ELSE IF k <= Len(array) THEN array[k] ELSE Hole]

\* array.splice(start, 0, ...items) on a copy.  A start beyond the end
\* appends.
SpliceIn(array, start, items) ==
    LET from == IF start > Len(array) THEN Len(array) ELSE start
    IN  SubSeq(array, 1, from) \o items \o SubSeq(array, from + 1, Len(array))

\* { ...b, ...updates }: the fields of both, those of updates winning
Spread(b, updates) ==
    [f \in DOMAIN b \cup DOMAIN updates |->
        IF f \in DOMAIN updates THEN updates[f] ELSE b[f]]

(***************************************************************************)
(* recalculateCounts                                           App.tsx:40  *)
(***************************************************************************)
\* `好评${count}次`
CountLabel(count) == "haoping" \o ToString(count) \o "ci"

\* Pass 1 from block k on.  counts is the Record<string, number>, a function
\* on the keys set so far; currentTextRowId is the id of the last TEXT_ROW
\* seen, or Null.
RECURSIVE CountImages(_, _, _, _)
CountImages(currentBlocks, k, currentTextRowId, counts) ==
    IF k > Len(currentBlocks) THEN counts
    ELSE LET block == currentBlocks[k]
         IN  IF block.type = TEXT_ROW
             THEN CountImages(currentBlocks, k + 1, block.id,
                     [i \in DOMAIN counts \cup {block.id} |->
                         IF i = block.id THEN 0 ELSE counts[i]])
             ELSE IF block.type = IMAGE /\ currentTextRowId # Null
             THEN CountImages(currentBlocks, k + 1, currentTextRowId,
                     [counts EXCEPT ![currentTextRowId] = @ + 1])
             ELSE CountImages(currentBlocks, k + 1, currentTextRowId, counts)

\* Pass 2 for one block: a TEXT_ROW whose subContent is not the label gets it.
\* RelabelRowAfterText is the pass that would keep what the row holds and put
\* the label after it.
RelabelRowAfterText(block, counts) ==
    IF block.type = TEXT_ROW
    THEN LET count == IF block.id \in DOMAIN counts THEN counts[block.id] ELSE 0
             newSubContent == CountLabel(count)
         IN  IF ~Has(block, "subContent") THEN Spread(block, [subContent |-> newSubContent])
             ELSE IF block.subContent # newSubContent
             THEN Spread(block, [subContent |-> block.subContent \o newSubContent])
             ELSE block
    ELSE block
\* RelabelEveryBlock is the pass without the test of the type.
RelabelEveryBlock(block, counts) ==
    LET count == IF block.id \in DOMAIN counts THEN counts[block.id] ELSE 0
    IN  Spread(block, [subContent |-> CountLabel(count)])
RelabelRow(block, counts) ==
    IF block.type = TEXT_ROW
    THEN LET count == IF block.id \in DOMAIN counts THEN counts[block.id] ELSE 0
             newSubContent == CountLabel(count)
         IN  IF ~Has(block, "subContent") \/ block.subContent # newSubContent
             THEN Spread(block, [subContent |-> newSubContent])
             ELSE block
    ELSE block

recalculateCounts(currentBlocks) ==
    LET counts == CountImages(currentBlocks, 1, Null, <<>>)
    IN  [k \in 1..Len(currentBlocks) |-> RelabelRow(currentBlocks[k], counts)]

(***************************************************************************)
(* The inputs of the handlers.                                             *)
(***************************************************************************)
\* no index: the null of draggedBlockIndex and targetBlockIndex
NullIndex == -1

\* Files the user picks or drags in: the File's type and the blob: URL
\* URL.createObjectURL gives it.  Two pictures, one taller and one shorter
\* than the 50 px minimum when rendered at the width of its column.
PickedFiles ==
    {[type |-> "image/png", url |-> "blob:tall"],
     [type |-> "image/png", url |-> "blob:short"],
     [type |-> "application/pdf", url |-> "blob:pdf"]}

\* file.type.startsWith('image/')
IsImageFile(file) == file.type \in {"image/png", "image/jpeg"}

\* e.target.files or e.dataTransfer.files: one to MaxFiles files
FileLists == UNION {[1..n -> PickedFiles] : n \in 1..MaxFiles}

\* files.filter(f => f.type.startsWith('image/')), and the same without the
\* filter: every file of the list
EveryFile(files) == files
RECURSIVE OnlyImages(_)
OnlyImages(files) ==
    IF files = <<>> THEN <<>>
    ELSE IF IsImageFile(Head(files))
         THEN <<Head(files)>> \o OnlyImages(Tail(files))
         ELSE OnlyImages(Tail(files))

\* The height the <img> of an IMAGE block renders at (w-full h-auto) in its
\* column: img.getBoundingClientRect().height once the picture is loaded
NaturalRenderedHeight(content) ==
    IF content \in {"blob:tall", "data:tall"} THEN 120 ELSE 30

\* What the user types into an input of a block
TypedTexts == {"a"}

\* { id: generateId(), type: BlockType.IMAGE, content: url } for each file,
\* ids[k] the id generateId returns for the k-th
NewImageBlocks(files, ids) ==
    [k \in 1..Len(files) |->
        [id |-> ids[k], type |-> IMAGE, content |-> files[k].url]]

\* The feedback the render gives block index (App.tsx:674-705): the class of
\* the swap box, the class of the insert line, or none.  Reading
\* sourceBlock.type with no block at the source index throws in the render.
isSwapMode(sourceBlock, targetBlock) ==
    sourceBlock.type = IMAGE /\ targetBlock.type = IMAGE

visualClass(array, dragged, target, index) ==
    LET isSource == dragged = index
        isTarget == target = index /\ ~isSource
    IN  IF ~isTarget THEN ""
        ELSE IF dragged = NullIndex THEN "border-t-[4px] border-green-500 pt-0"
        ELSE IF dragged >= Len(array) THEN "throw"
        ELSE IF isSwapMode(array[dragged + 1], array[index + 1])
        THEN "border-2 border-blue-500 rounded-sm scale-[1.02] z-10"
        ELSE "border-t-[4px] border-green-500 pt-0"

\* The render of the blocks throws, and with no error boundary the whole tree
\* unmounts
RenderThrows(array, dragged, target) ==
    \E index \in 0..(Len(array) - 1) :
        visualClass(array, dragged, target, index) = "throw"

(***************************************************************************)
(* The state setters.                                                      *)
(***************************************************************************)
\* setBlocksWithCount(prev => next): the next state is recalculateCounts(next)
setBlocksWithCount(nextBlocks) == recalculateCounts(nextBlocks)

\* updateBlock's updater: prev.map(b => b.id === id ? {...b, ...updates} : b)
updateBlock(prev, id, updates) ==
    [k \in 1..Len(prev) |->
        IF prev[k].id = id THEN Spread(prev[k], updates) ELSE prev[k]]

\* removeBlock's updater: prev.filter(b => b.id !== id)
RECURSIVE FilterOutId(_, _)
FilterOutId(prev, id) ==
    IF prev = <<>> THEN <<>>
    ELSE IF Head(prev).id # id
         THEN <<Head(prev)>> \o FilterOutId(Tail(prev), id)
         ELSE FilterOutId(Tail(prev), id)

\* FileSaver.saveAs has not been called
NoFile == [kind |-> "none"]

Idle == [kind |-> "idle", id |-> Null, currentHeight |-> 0, imgHeight |-> 0]
Ran(op, outcome) == [op |-> op, outcome |-> outcome]
\* a drop of files: the index of the block under them (the length of blocks
\* for the background) and e.dataTransfer.files
RanDrop(op, index, files) ==
    [op |-> op, outcome |-> "ok", index |-> index, files |-> files]

\* An uncaught error in a render unmounts the whole tree: no handler is left
Mounted == last.outcome # "crash"

Init ==
    /\ blocks = <<>>
    /\ margin = 5
    /\ draggedBlockIndex = NullIndex
    /\ targetBlockIndex = NullIndex
    /\ editingBlockId = Null
    /\ gesture = Idle
    /\ last = Ran("init", "ok")
    /\ pending = {}
    /\ written = NoFile

(***************************************************************************)
(* Toolbar and block actions                                   App.tsx:78  *)
(***************************************************************************)
handleImageUpload(files, ids) ==
    /\ Mounted /\ gesture.kind = "idle"
    /\ LET newBlocks == NewImageBlocks(OnlyImages(files), ids)
       IN  /\ Len(blocks) + Len(newBlocks) <= MaxLen
           /\ blocks' = setBlocksWithCount(blocks \o newBlocks)
    /\ last' = Ran("handleImageUpload", "ok")
    /\ UNCHANGED <<margin, draggedBlockIndex, targetBlockIndex, editingBlockId,
                   gesture>>
    /\ UNCHANGED <<pending, written>>

addTextRow(id) ==
    /\ Mounted /\ gesture.kind = "idle"
    /\ Len(blocks) < MaxLen
    /\ blocks' = setBlocksWithCount(blocks \o
          <<[id |-> id, type |-> TEXT_ROW, content |-> "xinwenben",
             subContent |-> "haoping0ci"]>>)
    /\ last' = Ran("addTextRow", "ok")
    /\ UNCHANGED <<margin, draggedBlockIndex, targetBlockIndex, editingBlockId,
                   gesture>>
    /\ UNCHANGED <<pending, written>>

addTitleRow(id) ==
    /\ Mounted /\ gesture.kind = "idle"
    /\ Len(blocks) < MaxLen
    /\ blocks' = blocks \o
          <<[id |-> id, type |-> TITLE, content |-> "biaoyangbiao"]>>
    /\ last' = Ran("addTitleRow", "ok")
    /\ UNCHANGED <<margin, draggedBlockIndex, targetBlockIndex, editingBlockId,
                   gesture>>
    /\ UNCHANGED <<pending, written>>

\* BlockRenderer's onChange of the main input of a TITLE or TEXT_ROW and of
\* the sub input of a TEXT_ROW: onUpdate(block.id, { field: e.target.value })
onChange(index, field, value) ==
    /\ Mounted /\ gesture.kind = "idle"
    /\ index \in 0..(Len(blocks) - 1)
    /\ LET block == blocks[index + 1]
       IN  /\ \/ field = "content" /\ block.type \in {TITLE, TEXT_ROW}
              \/ field = "subContent" /\ block.type = TEXT_ROW
           /\ blocks' = updateBlock(blocks, block.id,
                                    IF field = "content"
                                    THEN [content |-> value]
                                    ELSE [subContent |-> value])
    /\ last' = Ran("onChange", "ok")
    /\ UNCHANGED <<margin, draggedBlockIndex, targetBlockIndex, editingBlockId,
                   gesture>>
    /\ UNCHANGED <<pending, written>>

\* BlockRenderer's handleDelete: onRemove(block.id)
handleDelete(index) ==
    /\ Mounted /\ gesture.kind = "idle"
    /\ index \in 0..(Len(blocks) - 1)
    /\ blocks' = setBlocksWithCount(FilterOutId(blocks, blocks[index + 1].id))
    /\ last' = Ran("handleDelete", "ok")
    /\ UNCHANGED <<margin, draggedBlockIndex, targetBlockIndex, editingBlockId,
                   gesture>>
    /\ UNCHANGED <<pending, written>>

\* BlockRenderer's handleInputMouseDown: onEditStart, setEditingBlockId(block.id)
handleInputMouseDown(index) ==
    /\ Mounted /\ gesture.kind = "idle"
    /\ index \in 0..(Len(blocks) - 1)
    /\ blocks[index + 1].type \in {TITLE, TEXT_ROW}
    /\ editingBlockId' = blocks[index + 1].id
    /\ last' = Ran("handleInputMouseDown", "ok")
    /\ UNCHANGED <<blocks, margin, draggedBlockIndex, targetBlockIndex, gesture>>
    /\ UNCHANGED <<pending, written>>

\* BlockRenderer's handleInputBlur: onEditEnd, setEditingBlockId(null)
handleInputBlur ==
    /\ Mounted /\ gesture.kind = "idle"
    /\ editingBlockId # Null
    /\ editingBlockId' = Null
    /\ last' = Ran("handleInputBlur", "ok")
    /\ UNCHANGED <<blocks, margin, draggedBlockIndex, targetBlockIndex, gesture>>
    /\ UNCHANGED <<pending, written>>

\* removeBlock(id) and updateBlock(id, updates) as a renderer calls them
\* through onRemove and onUpdate, also a renderer of a block that is gone:
\* the listeners of a crop drag outlive their block, and the updaters run on
\* the blocks of the moment
removeBlock(id) ==
    /\ Mounted
    /\ blocks' = setBlocksWithCount(FilterOutId(blocks, id))
    /\ last' = Ran("removeBlock", "ok")
    /\ UNCHANGED <<margin, draggedBlockIndex, targetBlockIndex, editingBlockId,
                   gesture>>
    /\ UNCHANGED <<pending, written>>

onUpdate(id, updates) ==
    /\ Mounted
    /\ blocks' = updateBlock(blocks, id, updates)
    /\ last' = Ran("onUpdate", "ok")
    /\ UNCHANGED <<margin, draggedBlockIndex, targetBlockIndex, editingBlockId,
                   gesture>>
    /\ UNCHANGED <<pending, written>>

(***************************************************************************)
(* Drag and drop                                              App.tsx:224  *)
(*                                                                         *)
(* An internal drag is the gesture "drag", from a dragstart that was not   *)
(* rejected to the drop or the dragend.  External files are dragged in     *)
(* while the pointer is otherwise idle: their dragover and drop events     *)
(* carry the Files type and the file list.                                 *)
(***************************************************************************)
\* The test of handleDragStart: editingBlockId !== null, whatever block the
\* dragstart is of.  The block that is edited is not draggable, but the text
\* dragged out of its input bubbles a dragstart to it.
\* IsDragRejectedForOthers would let that one through.
IsDragRejectedForOthers(editing, block) == editing # Null /\ editing # block.id
IsDragRejected(editing, block) == editing # Null

handleDragStart(index) ==
    /\ Mounted /\ gesture.kind = "idle"
    /\ index \in 0..(Len(blocks) - 1)
    /\ IF IsDragRejected(editingBlockId, blocks[index + 1])
       THEN /\ last' = Ran("handleDragStart", "rejected")
            /\ UNCHANGED <<draggedBlockIndex, gesture>>
       ELSE /\ draggedBlockIndex' = index
            /\ gesture' = [Idle EXCEPT !.kind = "drag"]
            /\ last' = Ran("handleDragStart", "ok")
    /\ UNCHANGED <<blocks, margin, targetBlockIndex, editingBlockId>>
    /\ UNCHANGED <<pending, written>>

\* A dragover that moves the dragged block under the pointer as it goes, as
\* sortable lists do: not what handleDragOver does
handleDragOverSorting(index, external) ==
    /\ Mounted
    /\ gesture.kind = (IF external THEN "idle" ELSE "drag")
    /\ index \in 0..(Len(blocks) - 1)
    /\ IF ~external /\ draggedBlockIndex # NullIndex /\ draggedBlockIndex # index
          /\ draggedBlockIndex < Len(blocks)
       THEN /\ blocks' = [[blocks EXCEPT ![draggedBlockIndex + 1] = blocks[index + 1]]
                             EXCEPT ![index + 1] = blocks[draggedBlockIndex + 1]]
            /\ draggedBlockIndex' = index
       ELSE UNCHANGED <<blocks, draggedBlockIndex>>
    /\ targetBlockIndex' = index
    /\ last' = Ran("handleDragOver", "ok")
    /\ UNCHANGED <<margin, editingBlockId, gesture, pending, written>>

\* The dragover of block index.  It bubbles to handleContainerDragOver, which
\* does nothing for it (e.target is not the container).
handleDragOver(index, external) ==
    /\ Mounted
    /\ gesture.kind = (IF external THEN "idle" ELSE "drag")
    /\ index \in 0..(Len(blocks) - 1)
    /\ IF external
       THEN targetBlockIndex' = index
       ELSE IF draggedBlockIndex # NullIndex /\ draggedBlockIndex # index
       THEN targetBlockIndex' = index
       ELSE UNCHANGED targetBlockIndex
    /\ last' = Ran("handleDragOver",
                   IF RenderThrows(blocks, draggedBlockIndex, targetBlockIndex')
                   THEN "crash" ELSE "ok")
    /\ UNCHANGED <<blocks, margin, draggedBlockIndex, editingBlockId, gesture>>
    /\ UNCHANGED <<pending, written>>

\* The dragover of the page background (e.target === e.currentTarget)
handleContainerDragOver(external) ==
    /\ Mounted
    /\ gesture.kind = (IF external THEN "idle" ELSE "drag")
    /\ targetBlockIndex' = NullIndex
    /\ last' = Ran("handleContainerDragOver", "ok")
    /\ UNCHANGED <<blocks, margin, draggedBlockIndex, editingBlockId, gesture>>
    /\ UNCHANGED <<pending, written>>

\* The dragend of the source block: the drag was cancelled, or it comes after
\* a drop that left the source index set
handleDragEnd ==
    /\ Mounted
    /\ gesture.kind = "drag" \/ (gesture.kind = "idle" /\ draggedBlockIndex # NullIndex)
    /\ draggedBlockIndex' = NullIndex
    /\ targetBlockIndex' = NullIndex
    /\ gesture' = Idle
    /\ last' = Ran("handleDragEnd", "ok")
    /\ UNCHANGED <<blocks, margin, editingBlockId>>
    /\ UNCHANGED <<pending, written>>

\* The updater of an internal drop on a block (App.tsx:290-313), applied to
\* prev with what the handler read from the blocks of its render
\* (SwapBlocksOneWay writes the source over the target and leaves the
\* source's place as it was; InsertIndexUnshifted is the insert index of the
\* older handler of src/unnamed, which does not allow for the removal.)
SwapBlocksOneWay(prev, from, to, sourceBlock, targetBlock) ==
    [prev EXCEPT ![to + 1] = sourceBlock]
SwapBlocks(prev, from, to, sourceBlock, targetBlock) ==
    AssignAt(AssignAt(prev, from, targetBlock), to, sourceBlock)

InsertIndexUnshifted(from, to) == to
InsertIndex(from, to) == IF from < to THEN to - 1 ELSE to

MoveBlock(prev, from, to) ==
    LET cut == SpliceOut(prev, from, 1)
    IN  SpliceIn(cut.rest, InsertIndex(from, to), cut.removed)

\* isSwapOperationOfSource would look at the dragged block only.
isSwapOperationOfSource(sourceBlock, targetBlock) == sourceBlock.type = IMAGE

isSwapOperation(sourceBlock, targetBlock) ==
    sourceBlock.type = IMAGE /\ targetBlock.type = IMAGE

\* handleBlockDrop with e.dataTransfer.files non-empty
handleBlockDropFiles(dropIndex, files, ids) ==
    /\ Mounted /\ gesture.kind = "idle"
    /\ dropIndex \in 0..(Len(blocks) - 1)
    /\ LET newBlocks == NewImageBlocks(OnlyImages(files), ids)
       IN  /\ Len(blocks) + Len(newBlocks) <= MaxDropLen
           /\ IF Len(newBlocks) > 0
              THEN blocks' = setBlocksWithCount(SpliceIn(blocks, dropIndex, newBlocks))
              ELSE UNCHANGED blocks
    /\ targetBlockIndex' = NullIndex
    /\ last' = RanDrop("handleBlockDropFiles", dropIndex, files)
    /\ UNCHANGED <<margin, draggedBlockIndex, editingBlockId, gesture>>
    /\ UNCHANGED <<pending, written>>

\* The test of the internal drop: draggedBlockIndex !== null &&
\* draggedBlockIndex !== dropIndex.  IsInternalDrag has its first half only.
IsInternalDrag(from, to) == from # NullIndex
IsInternalMove(from, to) == from # NullIndex /\ from # to

\* handleBlockDrop with no files: the drop of an internal drag
handleBlockDrop(dropIndex) ==
    /\ Mounted /\ gesture.kind = "drag"
    /\ dropIndex \in 0..(Len(blocks) - 1)
    /\ gesture' = Idle
    /\ UNCHANGED <<margin, editingBlockId>>
    /\ IF IsInternalMove(draggedBlockIndex, dropIndex)
       THEN IF draggedBlockIndex >= Len(blocks)
            THEN \* sourceBlock is undefined: sourceBlock.type throws
                 /\ last' = Ran("handleBlockDrop", "throw")
                 /\ UNCHANGED <<blocks, draggedBlockIndex, targetBlockIndex>>
            ELSE LET sourceBlock == blocks[draggedBlockIndex + 1]
                     targetBlock == blocks[dropIndex + 1]
                 IN  /\ blocks' = setBlocksWithCount(
                            IF isSwapOperation(sourceBlock, targetBlock)
                            THEN SwapBlocks(blocks, draggedBlockIndex, dropIndex,
                                            sourceBlock, targetBlock)
                            ELSE MoveBlock(blocks, draggedBlockIndex, dropIndex))
                     /\ draggedBlockIndex' = NullIndex
                     /\ targetBlockIndex' = NullIndex
                     /\ last' = Ran("handleBlockDrop",
                                    IF isSwapOperation(sourceBlock, targetBlock)
                                    THEN "swap" ELSE "insert")
       ELSE /\ draggedBlockIndex' = NullIndex
            /\ targetBlockIndex' = NullIndex
            /\ last' = Ran("handleBlockDrop", "ok")
            /\ UNCHANGED blocks
    /\ UNCHANGED <<pending, written>>

\* handleContainerDrop with e.dataTransfer.files non-empty
handleContainerDropFiles(files, ids) ==
    /\ Mounted /\ gesture.kind = "idle"
    /\ LET newBlocks == NewImageBlocks(OnlyImages(files), ids)
       IN  /\ Len(blocks) + Len(newBlocks) <= MaxDropLen
           /\ IF Len(newBlocks) = 0
              THEN UNCHANGED <<blocks, draggedBlockIndex, targetBlockIndex>>
              ELSE /\ blocks' = setBlocksWithCount(blocks \o newBlocks)
                   /\ draggedBlockIndex' = NullIndex
                   /\ targetBlockIndex' = NullIndex
    /\ last' = RanDrop("handleContainerDropFiles", Len(blocks), files)
    /\ UNCHANGED <<margin, editingBlockId, gesture>>
    /\ UNCHANGED <<pending, written>>

\* The updater of an internal drop on the background: splice(from, 1), then
\* push.  PushCopy is the push without the splice.
PushCopy(prev, from) == prev \o <<prev[from + 1]>>
MoveToEnd(prev, from) ==
    LET cut == SpliceOut(prev, from, 1)
    IN  cut.rest \o cut.removed

\* handleContainerDrop with no files.  With the source index beyond the end
\* the updater pushes undefined and recalculateCounts throws in the render.
handleContainerDrop ==
    /\ Mounted /\ gesture.kind = "drag"
    /\ gesture' = Idle
    /\ draggedBlockIndex' = NullIndex
    /\ targetBlockIndex' = NullIndex
    /\ UNCHANGED <<margin, editingBlockId>>
    /\ IF draggedBlockIndex # NullIndex
       THEN IF draggedBlockIndex >= Len(blocks)
            THEN /\ last' = Ran("handleContainerDrop", "crash")
                 /\ UNCHANGED blocks
            ELSE /\ blocks' = setBlocksWithCount(MoveToEnd(blocks, draggedBlockIndex))
                 /\ last' = Ran("handleContainerDrop", "ok")
       ELSE /\ last' = Ran("handleContainerDrop", "ok")
            /\ UNCHANGED blocks
    /\ UNCHANGED <<pending, written>>

(***************************************************************************)
(* Crop by dragging the bottom edge              BlockRenderer.tsx:51      *)
(***************************************************************************)
\* Pointer displacements clientY - startY of a mousemove or mouseup
Deltas == {-100, -40, 100}

\* Math.max(50, Math.min(height, fullImageHeight))
ClampHeight(height, fullImageHeight) ==
    LET least == IF height < fullImageHeight THEN height ELSE fullImageHeight
    IN  IF least > 50 THEN least ELSE 50

\* imgRef.current?.getBoundingClientRect().height || 1000 for the renderer
\* of block id: the rendered height of its <img>, 1000 when no IMAGE block
\* of that id is mounted
FullImageHeights(id) ==
    LET shown == {k \in 1..Len(blocks) : blocks[k].id = id /\ blocks[k].type = IMAGE}
    IN  IF shown = {} THEN {1000}
        ELSE {NaturalRenderedHeight(blocks[k].content) : k \in shown}

\* containerRef.current?.clientHeight || 0: the container is as high as the
\* block's height says, or as the picture when there is none
ClientHeight(block) ==
    IF Has(block, "height") /\ block.height # 0 THEN block.height
    ELSE NaturalRenderedHeight(block.content)

handleMouseDownResize(index) ==
    /\ Mounted /\ gesture.kind = "idle"
    /\ index \in 0..(Len(blocks) - 1)
    /\ blocks[index + 1].type = IMAGE
    /\ gesture' = [kind |-> "crop", id |-> blocks[index + 1].id,
                   currentHeight |-> ClientHeight(blocks[index + 1]),
                   imgHeight |-> ClientHeight(blocks[index + 1])]
    /\ last' = Ran("handleMouseDownResize", "ok")
    /\ UNCHANGED <<blocks, margin, draggedBlockIndex, targetBlockIndex,
                   editingBlockId>>
    /\ UNCHANGED <<pending, written>>

\* The mousemove listener; fullImageHeight is the one read at mousedown,
\* here read again as nothing changes it while the block is mounted
onMouseMove(delta) ==
    /\ Mounted /\ gesture.kind = "crop"
    /\ \E fullImageHeight \in FullImageHeights(gesture.id) :
          gesture' = [gesture EXCEPT
              !.imgHeight = ClampHeight(gesture.currentHeight + delta, fullImageHeight)]
    /\ last' = Ran("onMouseMove", "ok")
    /\ UNCHANGED <<blocks, margin, draggedBlockIndex, targetBlockIndex,
                   editingBlockId>>
    /\ UNCHANGED <<pending, written>>

\* The mouseup listener: onUpdate(block.id, { height: finalHeight })
onMouseUp(delta) ==
    /\ Mounted /\ gesture.kind = "crop"
    /\ \E fullImageHeight \in FullImageHeights(gesture.id) :
          LET finalHeight == ClampHeight(gesture.currentHeight + delta, fullImageHeight)
          IN  blocks' = updateBlock(blocks, gesture.id, [height |-> finalHeight])
    /\ gesture' = Idle
    /\ last' = Ran("onMouseUp", "ok")
    /\ UNCHANGED <<margin, draggedBlockIndex, targetBlockIndex, editingBlockId>>
    /\ UNCHANGED <<pending, written>>

(***************************************************************************)
(* Load a project                                             App.tsx:190  *)
(***************************************************************************)
\* The files the user may open.  parsed is what JSON.parse makes of the
\* text: a SyntaxError, the JSON null, or an object, and then json has
\* exactly the fields the file has.  An element [null |-> TRUE] of blocks is
\* a JSON null in the array.
ProjectFiles ==
    {[parsed |-> "SyntaxError"],
     [parsed |-> "null"],
     [parsed |-> "object", json |-> [version |-> 1]],
     [parsed |-> "object", json |-> [version |-> 1, margin |-> 10]],
     [parsed |-> "object", json |-> [version |-> 1, margin |-> 10, blocks |->
         <<[null |-> TRUE]>>]],
     [parsed |-> "object", json |-> [version |-> 1, margin |-> 10, blocks |->
         <<[id |-> "id1", type |-> TEXT_ROW, content |-> "a", subContent |-> "haoping7ci"],
           [id |-> "id2", type |-> IMAGE, content |-> "data:tall", height |-> 80]>>]],
     [parsed |-> "object", json |-> [version |-> 1, blocks |->
         <<[id |-> "id1", type |-> TITLE, content |-> "a"]>>]],
     [parsed |-> "object", json |-> [version |-> 1, margin |-> 10, blocks |->
         <<[id |-> "id1", type |-> TEXT_ROW, content |-> "a", subContent |-> "haoping1ci"],
           [id |-> "id2", type |-> IMAGE, content |-> "data:tall", height |-> 500],
           [id |-> "id1", type |-> TEXT_ROW, content |-> "xinwenben", subContent |-> "haoping0ci"]>>]]}

\* JSON.parse throws, json.blocks of null throws, or block.type of a null
\* element throws in recalculateCounts: the catch shows the alert
LoadThrows(file) ==
    \/ file.parsed = "SyntaxError"
    \/ file.parsed = "null"
    \/ /\ Has(file.json, "blocks")
       /\ \E k \in 1..Len(file.json.blocks) : Has(file.json.blocks[k], "null")

\* recalculateCounts(json.blocks), and the blocks of the file as they are
FileBlocks(json) == json.blocks
LoadedBlocks(json) == recalculateCounts(json.blocks)

\* reader.onload of handleLoadProject.  The read is asynchronous: it ends
\* whatever the pointer is doing.
handleLoadProject(file) ==
    /\ Mounted
    /\ IF LoadThrows(file)
       THEN /\ last' = Ran("handleLoadProject", "alert")
            /\ UNCHANGED <<blocks, margin>>
       ELSE /\ IF Has(file.json, "blocks")
               THEN blocks' = LoadedBlocks(file.json)
               ELSE UNCHANGED blocks
            /\ IF Has(file.json, "margin")
               THEN margin' = file.json.margin
               ELSE UNCHANGED margin
            /\ last' = Ran("handleLoadProject",
                           IF RenderThrows(blocks', draggedBlockIndex, targetBlockIndex)
                           THEN "crash" ELSE "ok")
    /\ UNCHANGED <<draggedBlockIndex, targetBlockIndex, editingBlockId, gesture>>
    /\ UNCHANGED <<pending, written>>

(***************************************************************************)
(* A drop in a render that is behind the state                App.tsx:282  *)
(*                                                                         *)
(* reader.onload of a project load, the commit of a crop and the change of *)
(* an input queue their update; until React has rendered it the handlers   *)
(* of the blocks are those of the render before, with its blocks, while    *)
(* the updater of a drop is applied to the state the queued update left.   *)
(***************************************************************************)
QueuedUpdates ==
    {[op |-> "updateBlock", id |-> id, updates |-> updates] :
        id \in {"id1", "id2", "id3"},
        updates \in {[content |-> "a"], [height |-> 50]}}
    \cup {[op |-> "removeBlock", id |-> id] : id \in {"id1", "id2", "id3"}}
    \cup {[op |-> "handleLoadProject", file |-> file] :
             file \in {f \in ProjectFiles : ~LoadThrows(f) /\ Has(f.json, "blocks")}}

\* The state the queued update leaves
ApplyQueued(update, prev) ==
    CASE update.op = "updateBlock" -> updateBlock(prev, update.id, update.updates)
      [] update.op = "removeBlock" -> setBlocksWithCount(FilterOutId(prev, update.id))
      [] update.op = "handleLoadProject" -> LoadedBlocks(update.file.json)

\* The updater of the internal drop applied to prev.  It throws when what it
\* returns holds undefined (a hole a swap left, or the movedItem of a splice
\* that removed nothing): block.type throws in recalculateCounts.
DropUpdater(prev, from, to, sourceBlock, targetBlock) ==
    IF isSwapOperation(sourceBlock, targetBlock)
    THEN LET newBlocks == SwapBlocks(prev, from, to, sourceBlock, targetBlock)
         IN  IF \E k \in 1..Len(newBlocks) : newBlocks[k] = Hole
             THEN [throws |-> TRUE]
             ELSE [throws |-> FALSE, blocks |-> newBlocks]
    ELSE IF from >= Len(prev) THEN [throws |-> TRUE]
         ELSE [throws |-> FALSE, blocks |-> MoveBlock(prev, from, to)]

\* handleBlockDrop with no files, in a render that is behind by update
handleBlockDropBehind(dropIndex, update) ==
    /\ Mounted /\ gesture.kind = "drag"
    /\ dropIndex \in 0..(Len(blocks) - 1)
    /\ IsInternalMove(draggedBlockIndex, dropIndex)
    /\ draggedBlockIndex < Len(blocks)
    /\ gesture' = Idle
    /\ draggedBlockIndex' = NullIndex
    /\ targetBlockIndex' = NullIndex
    /\ LET sourceBlock == blocks[draggedBlockIndex + 1]
           targetBlock == blocks[dropIndex + 1]
           prev == ApplyQueued(update, blocks)
           newBlocks == DropUpdater(prev, draggedBlockIndex, dropIndex,
                                    sourceBlock, targetBlock)
       IN  IF newBlocks.throws
           THEN /\ blocks' = prev
                /\ last' = [op |-> "handleBlockDrop", outcome |-> "crash", prev |-> prev]
           ELSE /\ blocks' = setBlocksWithCount(newBlocks.blocks)
                /\ last' = [op |-> "handleBlockDrop",
                            outcome |-> IF isSwapOperation(sourceBlock, targetBlock)
                                        THEN "swap" ELSE "insert",
                            prev |-> prev]
    /\ UNCHANGED <<margin, editingBlockId, pending, written>>

(***************************************************************************)
(* The file name                                              App.tsx:147  *)
(***************************************************************************)
\* The characters of a text.  A Chinese character is written as its
\* syllable; a text that is not listed is one character long.
Chars(text) ==
    CASE text = "" -> <<>>
      [] text = " " -> <<" ">>
      [] text = " a " -> <<" ", "a", " ">>
      [] text = "a/b" -> <<"a", "/", "b">>
      [] text = "xinwenben" -> <<"xin", "wen", "ben">>
      [] text = " xinwenben" -> <<" ", "xin", "wen", "ben">>
      [] text = "wendangbiaoti" -> <<"wen", "dang", "biao", "ti">>
      [] text = "biaoyangbiao" ->
            <<"1", "yue", "fen", "wang", "luo", "ping", "tai", "biao", "yang", "biao">>
      [] OTHER -> <<text>>

\* String.prototype.trim, and the text as it is
untrimmed(chars) == chars
RECURSIVE trim(_)
trim(chars) ==
    IF chars = <<>> THEN <<>>
    ELSE IF Head(chars) = " " THEN trim(Tail(chars))
    ELSE IF chars[Len(chars)] = " " THEN trim(SubSeq(chars, 1, Len(chars) - 1))
    ELSE chars

\* The characters of /[<>:"/\\|?*]/
Reserved == {"<", ">", ":", "\"", "/", "\\", "|", "?", "*"}

\* filename.replace(/[<>:"/\\|?*]/g, '_')
replace(chars) ==
    [k \in 1..Len(chars) |-> IF chars[k] \in Reserved THEN "_" ELSE chars[k]]

\* b.type === type && b.content && b.content.trim().length > 0 &&
\* b.content !== placeholder
Names(b, type, placeholder) ==
    /\ b.type = type
    /\ b.content # ""
    /\ Len(trim(Chars(b.content))) > 0
    /\ b.content # placeholder

\* array.find with the test of Names: the first block that passes, if any
Found(array, type, placeholder) ==
    {k \in 1..Len(array) :
        /\ Names(array[k], type, placeholder)
        /\ \A n \in 1..(k - 1) : ~Names(array[n], type, placeholder)}

\* getSmartFilename of the render whose blocks are array
getSmartFilename(array) ==
    LET titleBlock == Found(array, TITLE, "wendangbiaoti")
        textRow == Found(array, TEXT_ROW, "xinwenben")
        filename ==
            IF titleBlock # {}
            THEN trim(Chars(array[CHOOSE k \in titleBlock : TRUE].content))
            ELSE IF textRow # {}
            THEN trim(Chars(array[CHOOSE k \in textRow : TRUE].content))
            ELSE Chars("layout-project")
    IN  replace(filename)

(***************************************************************************)
(* Save a project                                             App.tsx:165  *)
(***************************************************************************)
MaxPending == 2     \* saves and exports awaiting their images at a time

\* blobUrl.startsWith('data:')
IsDataUrl(url) == url \in {"data:tall", "data:short", "data:text"}

\* fetch(url) rejects: the blob: URL of an earlier session, which a project
\* file written by hand or by another program may hold
FetchRejects(url) == url = "blob:gone"

\* reader.readAsDataURL of the bytes fetched from url
readAsDataURL(url) ==
    CASE url = "blob:tall" -> "data:tall"
      [] url = "blob:short" -> "data:short"
      [] url = "blob:pdf" -> "data:pdf"
      [] OTHER -> url

\* blobUrlToBase64 resolves with value, or rejects.  AsItIs would hand the
\* URL on unresolved.
AsItIs(blobUrl) == [resolved |-> TRUE, value |-> blobUrl]
blobUrlToBase64(blobUrl) ==
    IF IsDataUrl(blobUrl) THEN [resolved |-> TRUE, value |-> blobUrl]
    ELSE IF FetchRejects(blobUrl) THEN [resolved |-> FALSE]
    ELSE [resolved |-> TRUE, value |-> readAsDataURL(blobUrl)]

\* The block of portableBlocks for b, once its promise resolved: { ...b,
\* content: base64 }.  PortableBlockBare would leave out the ...b.
PortableBlockBare(b) ==
    IF b.type = IMAGE
    THEN [id |-> b.id, type |-> b.type, content |-> blobUrlToBase64(b.content).value]
    ELSE b
PortableBlock(b) ==
    IF b.type = IMAGE
    THEN Spread(b, [content |-> blobUrlToBase64(b.content).value])
    ELSE b

\* Promise.all rejects when the promise of one block rejects
PortableRejects(array) ==
    \E k \in 1..Len(array) :
        array[k].type = IMAGE /\ ~blobUrlToBase64(array[k].content).resolved

\* ProjectFileNow would stringify the blocks and the margin of the moment the
\* images are ready instead of those the handler closed over.
ProjectFileNow(job) ==
    [parsed |-> "object",
     json |-> [version |-> 1, margin |-> margin,
               blocks |-> [k \in 1..Len(blocks) |-> PortableBlock(blocks[k])]]]
\* The file of JSON.stringify(projectData), as what JSON.parse makes of it:
\* strings, numbers, arrays and objects with no undefined field come back as
\* they were
ProjectFile(job) ==
    [parsed |-> "object",
     json |-> [version |-> 1, margin |-> job.margin,
               blocks |-> [k \in 1..Len(job.blocks) |-> PortableBlock(job.blocks[k])]]]

\* What the render of a handler closes over: its blocks and its margin
Job(kind) == [kind |-> kind, blocks |-> blocks, margin |-> margin]

\* handleSaveProject up to its await
handleSaveProject ==
    /\ Mounted
    /\ Cardinality(pending) < MaxPending
    /\ pending' = pending \cup {Job("save")}
    /\ last' = Ran("handleSaveProject", "ok")
    /\ UNCHANGED <<blocks, margin, draggedBlockIndex, targetBlockIndex,
                   editingBlockId, gesture, written>>

\* handleSaveProject from its await on, for the save job: the file is
\* written, or the catch shows the alert
saveSettles(job) ==
    /\ job \in pending /\ job.kind = "save"
    /\ pending' = pending \ {job}
    /\ IF PortableRejects(job.blocks)
       THEN /\ last' = Ran("saveSettles", "alert")
            /\ UNCHANGED written
       ELSE /\ written' = [kind |-> "json", name |-> getSmartFilename(job.blocks),
                           file |-> ProjectFile(job), job |-> job]
            /\ last' = Ran("saveSettles", "written")
    /\ UNCHANGED <<blocks, margin, draggedBlockIndex, targetBlockIndex,
                   editingBlockId, gesture>>

\* handleLoadProject of the file that was saved last
loadWritten ==
    /\ written.kind = "json"
    /\ handleLoadProject(written.file)

(***************************************************************************)
(* Export to Word                              services/docxService.ts:120 *)
(***************************************************************************)
MaxRun == 5         \* blocks of a document to export, so images in a row

\* new Image() with src = url fires onload: the bytes are a picture.  A text
\* file behind a data: URL and a URL that cannot be fetched fire onerror.
Decodes(url) == url \in {"blob:tall", "blob:short", "data:tall", "data:short"}

\* blob.type of the bytes fetch(url) gives
BlobType(url) ==
    CASE url \in {"blob:tall", "blob:short", "data:tall", "data:short"} -> "image/png"
      [] url = "data:text" -> "text/plain"
      [] url = "blob:pdf" -> "application/pdf"
      [] OTHER -> ""

\* mimeType.includes("png") and so on, else "jpg"
getImageType(mimeType) ==
    CASE mimeType = "image/png" -> "png"
      [] mimeType = "image/gif" -> "gif"
      [] mimeType = "image/bmp" -> "bmp"
      [] OTHER -> "jpg"

\* block.height where the code tests it for truth: 0 when there is none
HeightOrZero(block) == IF Has(block, "height") THEN block.height ELSE 0

\* resolveOriginal: fetch(url).then(...).catch(reject)
resolveOriginal(url) ==
    IF FetchRejects(url) THEN [resolved |-> FALSE]
    ELSE [resolved |-> TRUE, data |-> [bytes |-> readAsDataURL(url), rows |-> 0],
          type |-> getImageType(BlobType(url))]

\* processImage resolves with data and type, or rejects.  data is the bytes
\* of a picture and the rows of it the canvas kept (0: the bytes as fetched).
\* The pictures are REFERENCE_DISPLAY_WIDTH wide, so scale is 1 and
\* naturalHeight is the height the editor renders; the canvas gives its
\* context and its blob.
processImage(url, cropHeight) ==
    IF ~Decodes(url) THEN resolveOriginal(url)
    ELSE IF cropHeight # 0
         THEN IF cropHeight >= NaturalRenderedHeight(url) - 1
              THEN resolveOriginal(url)
              ELSE [resolved |-> TRUE,
                    data |-> [bytes |-> readAsDataURL(url), rows |-> cropHeight],
                    type |-> "png"]
         ELSE resolveOriginal(url)

\* getImageAspectRatio times REFERENCE_DISPLAY_WIDTH: naturalHeight of a
\* picture that wide, the width itself (ratio 1) on error
AspectHeight(url) == IF Decodes(url) THEN NaturalRenderedHeight(url) ELSE 354

\* new ImageRun({ data, transformation: { width: 300, height }, type }), the
\* height in whole pixels
ImageRun(block) ==
    LET img == processImage(block.content, HeightOrZero(block))
    IN  [data |-> img.data,
         width |-> 300,
         height |-> IF HeightOrZero(block) # 0
                    THEN (300 * block.height) \div 354
                    ELSE (300 * AspectHeight(block.content)) \div 354,
         type |-> img.type]

\* The cells of a row: an image, or the empty paragraph
ImageCell(block) == [cell |-> "image", run |-> ImageRun(block)]
EmptyCell == [cell |-> "empty"]

\* The children the loop pushes
TitleParagraph(block) == [child |-> "title", text |-> block.content]
TextParagraph(block) ==
    IF Has(block, "subContent") /\ block.subContent # ""
    THEN [child |-> "text", text |-> block.content, sub |-> block.subContent]
    ELSE [child |-> "text", text |-> block.content]
TableRow(left, right) == [child |-> "table", left |-> left, right |-> right]
Spacing(m) == [child |-> "spacing", after |-> m * 10]

\* The i the loop goes on with after an image: i++ of the for, and the i++
\* that skips the image paired with it.  NextIndexNoSkip has the first only.
NextIndexNoSkip(i, isNextImage) == i + 1
NextIndex(i, isNextImage) == IF isNextImage THEN i + 2 ELSE i + 1

\* docChildren as the loop of exportToDocx leaves it, from blocks[i - 1] on
\* (array is indexed from 1)
RECURSIVE docChildren(_, _, _)
docChildren(array, i, m) ==
    IF i > Len(array) THEN <<>>
    ELSE LET block == array[i]
             isNextImage == i + 1 <= Len(array) /\ array[i + 1].type = IMAGE
         IN  IF block.type = TITLE
             THEN <<TitleParagraph(block)>> \o docChildren(array, i + 1, m)
             ELSE IF block.type = TEXT_ROW
             THEN <<TextParagraph(block)>> \o docChildren(array, i + 1, m)
             ELSE IF block.type = IMAGE
             THEN <<TableRow(ImageCell(block),
                             IF isNextImage THEN ImageCell(array[i + 1]) ELSE EmptyCell),
                    Spacing(m)>>
                  \o docChildren(array, NextIndex(i, isNextImage), m)
             ELSE docChildren(array, i + 1, m)

\* An await of processImage throws: the promise of one image rejects
ExportRejects(array) ==
    \E k \in 1..Len(array) :
        /\ array[k].type = IMAGE
        /\ ~processImage(array[k].content, HeightOrZero(array[k])).resolved

\* handleExportDocx up to the first await of exportToDocx
handleExportDocx ==
    /\ Mounted
    /\ Cardinality(pending) < MaxPending
    /\ pending' = pending \cup {Job("export")}
    /\ last' = Ran("handleExportDocx", "ok")
    /\ UNCHANGED <<blocks, margin, draggedBlockIndex, targetBlockIndex,
                   editingBlockId, gesture, written>>

\* exportToDocx from its awaits on, for the export job: the document is
\* saved, or the catch of handleExportDocx shows the alert
exportSettles(job) ==
    /\ job \in pending /\ job.kind = "export"
    /\ pending' = pending \ {job}
    /\ IF ExportRejects(job.blocks)
       THEN /\ last' = Ran("exportSettles", "alert")
            /\ UNCHANGED written
       ELSE /\ written' = [kind |-> "docx", name |-> getSmartFilename(job.blocks),
                           file |-> [children |-> docChildren(job.blocks, 1, job.margin)],
                           job |-> job]
            /\ last' = Ran("exportSettles", "written")
    /\ UNCHANGED <<blocks, margin, draggedBlockIndex, targetBlockIndex,
                   editingBlockId, gesture>>

\* The slider of the spacing: setMargin(Number(e.target.value))
onMarginChange(value) ==
    /\ Mounted
    /\ margin' = value
    /\ last' = Ran("onMarginChange", "ok")
    /\ UNCHANGED <<blocks, draggedBlockIndex, targetBlockIndex, editingBlockId,
                   gesture, pending, written>>

(***************************************************************************)
(* The spacing                                                App.tsx:122  *)
(***************************************************************************)
\* Pointer displacements me.clientX - startX of a mousemove of the scrub
ScrubDeltas == {-100, -3, 1, 2, 40, 200}

\* What the user leaves in the number field, as Number(e.target.value): the
\* attributes min="0" max="50" bound the arrows of the field, not the keys
TypedMargins == {0, 7, 50, 51, 100}

\* Math.max(0, Math.min(50, value))
Clamp(value) == IF value < 0 THEN 0 ELSE IF value > 50 THEN 50 ELSE value

\* handleMarginScrub: the mousedown on the label; startMargin is the margin
\* of the render
handleMarginScrub ==
    /\ Mounted /\ gesture.kind = "idle"
    /\ gesture' = [kind |-> "scrub", startMargin |-> margin]
    /\ last' = Ran("handleMarginScrub", "ok")
    /\ UNCHANGED <<blocks, margin, draggedBlockIndex, targetBlockIndex,
                   editingBlockId, pending, written>>

\* onMouseMove of the scrub: delta is Math.floor((me.clientX - startX) / 2)
onScrubMouseMove(dx) ==
    /\ Mounted /\ gesture.kind = "scrub"
    /\ margin' = Clamp(gesture.startMargin + (dx \div 2))
    /\ last' = Ran("onScrubMouseMove", "ok")
    /\ UNCHANGED <<blocks, draggedBlockIndex, targetBlockIndex, editingBlockId,
                   gesture, pending, written>>

\* onMouseUp of the scrub
onScrubMouseUp ==
    /\ Mounted /\ gesture.kind = "scrub"
    /\ gesture' = Idle
    /\ last' = Ran("onScrubMouseUp", "ok")
    /\ UNCHANGED <<blocks, margin, draggedBlockIndex, targetBlockIndex,
                   editingBlockId, pending, written>>

(***************************************************************************)
(* Specifications.                                                         *)
(*                                                                         *)
(* Spec is a session from the empty document: the toolbar, the inputs and  *)
(* the delete buttons of the blocks, and project loads.  SpecDrop (drags   *)
(* of a block), SpecFiles (files dropped in) and SpecCrop (crop drags) run *)
(* the pointer gestures on documents such a session builds; a project load *)
(* may end at any moment of a drag.  SpecRecalc applies recalculateCounts  *)
(* to any array of blocks.                                                 *)
(***************************************************************************)
Next ==
    \/ \E files \in FileLists :
          \E ids \in [1..Len(OnlyImages(files)) -> Ids] : handleImageUpload(files, ids)
    \/ \E id \in Ids : addTextRow(id)
    \/ \E id \in Ids : addTitleRow(id)
    \/ \E index \in 0..(MaxLen - 1), field \in {"content", "subContent"},
          value \in TypedTexts : onChange(index, field, value)
    \/ \E index \in 0..(MaxLen - 1) : handleDelete(index)
    \/ \E file \in ProjectFiles : handleLoadProject(file)

Spec == Init /\ [][Next]_vars

\* Documents a session builds, the block at position k having the k-th id:
\* titles, text rows whose subContent the user typed, pictures
PositionId(k) == "id" \o ToString(k)

SampleBlocks(k) ==
    {[id |-> PositionId(k), type |-> TITLE, content |-> "biaoyangbiao"],
     [id |-> PositionId(k), type |-> TEXT_ROW, content |-> "xinwenben",
      subContent |-> "a"],
     [id |-> PositionId(k), type |-> IMAGE, content |-> "blob:tall"],
     [id |-> PositionId(k), type |-> IMAGE, content |-> "blob:short"]}

Documents ==
    UNION {{d \in [1..n -> UNION {SampleBlocks(k) : k \in 1..n}] :
               \A k \in 1..n : d[k] \in SampleBlocks(k)} : n \in 0..MaxLen}

InitDocuments ==
    /\ blocks \in Documents
    /\ margin = 5
    /\ draggedBlockIndex = NullIndex
    /\ targetBlockIndex = NullIndex
    /\ editingBlockId = Null
    /\ gesture = Idle
    /\ last = Ran("init", "ok")
    /\ pending = {}
    /\ written = NoFile

NextDrop ==
    \/ \E index \in 0..(MaxLen - 1) : handleDragStart(index)
    \/ \E index \in 0..(MaxLen - 1) : handleDragOver(index, FALSE)
    \/ handleContainerDragOver(FALSE)
    \/ handleDragEnd
    \/ \E dropIndex \in 0..(MaxLen - 1) : handleBlockDrop(dropIndex)
    \/ handleContainerDrop
    \/ \E file \in ProjectFiles : handleLoadProject(file)

SpecDrop == InitDocuments /\ [][NextDrop]_vars

NextFiles ==
    \/ \E dropIndex \in 0..(MaxDropLen - 1), files \in FileLists :
          \E ids \in [1..Len(OnlyImages(files)) -> Ids] :
              handleBlockDropFiles(dropIndex, files, ids)
    \/ \E files \in FileLists :
          \E ids \in [1..Len(OnlyImages(files)) -> Ids] :
              handleContainerDropFiles(files, ids)

SpecFiles == InitDocuments /\ [][NextFiles]_vars

NextCrop ==
    \/ \E index \in 0..(MaxLen - 1) : handleMouseDownResize(index)
    \/ \E delta \in Deltas : onMouseMove(delta)
    \/ \E delta \in Deltas : onMouseUp(delta)
    \/ \E file \in ProjectFiles : handleLoadProject(file)

SpecCrop == InitDocuments /\ [][NextCrop]_vars

\* recalculateCounts on its own: any array of blocks, with ids that repeat,
\* rows without a subContent, rows that hold typed text or an old label
AnyBlocks ==
    UNION {{[id |-> id, type |-> TITLE, content |-> "biaoyangbiao"],
            [id |-> id, type |-> TEXT_ROW, content |-> "xinwenben"],
            [id |-> id, type |-> TEXT_ROW, content |-> "xinwenben", subContent |-> "a"],
            [id |-> id, type |-> TEXT_ROW, content |-> "xinwenben",
             subContent |-> "haoping1ci"],
            [id |-> id, type |-> IMAGE, content |-> "blob:tall"],
            [id |-> id, type |-> IMAGE, content |-> "blob:tall", height |-> 80]} :
              id \in Ids}

InitRecalc ==
    /\ blocks \in UNION {[1..n -> AnyBlocks] : n \in 0..MaxLen}
    /\ margin = 5
    /\ draggedBlockIndex = NullIndex
    /\ targetBlockIndex = NullIndex
    /\ editingBlockId = Null
    /\ gesture = Idle
    /\ last = Ran("init", "ok")
    /\ pending = {}
    /\ written = NoFile

Recalculate ==
    /\ blocks' = recalculateCounts(blocks)
    /\ last' = Ran("recalculateCounts", "ok")
    /\ UNCHANGED <<margin, draggedBlockIndex, targetBlockIndex, editingBlockId,
                   gesture>>
    /\ UNCHANGED <<pending, written>>

NextRecalc == Recalculate

SpecRecalc == InitRecalc /\ [][NextRecalc]_vars

\* Documents to save: a title, a row the user annotated, a picture of this
\* session with a crop, a picture a loaded project brought as a data: URL,
\* and a picture whose blob: URL is of an earlier session
StoredBlocks(k) ==
    {[id |-> PositionId(k), type |-> TITLE, content |-> "biaoyangbiao"],
     [id |-> PositionId(k), type |-> TEXT_ROW, content |-> "xinwenben",
      subContent |-> "a"],
     [id |-> PositionId(k), type |-> IMAGE, content |-> "blob:tall", height |-> 80],
     [id |-> PositionId(k), type |-> IMAGE, content |-> "data:short"],
     [id |-> PositionId(k), type |-> IMAGE, content |-> "blob:gone"]}

InitStored ==
    /\ blocks \in UNION {{d \in [1..n -> UNION {StoredBlocks(k) : k \in 1..n}] :
                             \A k \in 1..n : d[k] \in StoredBlocks(k)} : n \in 0..MaxLen}
    /\ margin \in {0, 5}
    /\ draggedBlockIndex = NullIndex
    /\ targetBlockIndex = NullIndex
    /\ editingBlockId = Null
    /\ gesture = Idle
    /\ last = Ran("init", "ok")
    /\ pending = {}
    /\ written = NoFile

NextSave ==
    \/ handleSaveProject
    \/ \E job \in pending : saveSettles(job)
    \/ loadWritten

SpecSave == InitStored /\ [][NextSave]_vars

\* Documents to name: titles and rows with the texts a user may leave in
\* them, and pictures
NameTexts ==
    {"", " ", "a", " a ", "a/b", "xinwenben", "wendangbiaoti", "biaoyangbiao"}

NamedBlocks(k) ==
    {[id |-> PositionId(k), type |-> TITLE, content |-> text] : text \in NameTexts}
    \cup {[id |-> PositionId(k), type |-> TEXT_ROW, content |-> text,
           subContent |-> "haoping0ci"] : text \in NameTexts}
    \cup {[id |-> PositionId(k), type |-> IMAGE, content |-> "blob:tall"]}

InitNamed ==
    /\ blocks \in UNION {{d \in [1..n -> UNION {NamedBlocks(k) : k \in 1..n}] :
                             \A k \in 1..n : d[k] \in NamedBlocks(k)} : n \in 0..MaxLen}
    /\ margin = 5
    /\ draggedBlockIndex = NullIndex
    /\ targetBlockIndex = NullIndex
    /\ editingBlockId = Null
    /\ gesture = Idle
    /\ last = Ran("init", "ok")
    /\ pending = {}
    /\ written = NoFile

NextName ==
    \/ handleSaveProject
    \/ \E job \in pending : saveSettles(job)

SpecName == InitNamed /\ [][NextName]_vars

\* The ids a renderer may hold, of blocks that are there or gone
HeldIds == {PositionId(k) : k \in 1..(MaxLen + 1)}

NextStale ==
    \/ \E id \in HeldIds : removeBlock(id)
    \/ \E id \in HeldIds, updates \in {[content |-> "a"], [subContent |-> "a"],
                                      [height |-> 50]} : onUpdate(id, updates)

SpecStale == InitDocuments /\ [][NextStale]_vars

\* Documents to export: a title, an annotated row, a cropped picture, a
\* picture as it is, a text file a loaded project names as a picture, and a
\* picture whose blob: URL is of an earlier session
ExportBlocks(k) ==
    {[id |-> PositionId(k), type |-> TITLE, content |-> "biaoyangbiao"],
     [id |-> PositionId(k), type |-> TEXT_ROW, content |-> "xinwenben",
      subContent |-> "a"],
     [id |-> PositionId(k), type |-> IMAGE, content |-> "blob:tall", height |-> 80],
     [id |-> PositionId(k), type |-> IMAGE, content |-> "blob:short"],
     [id |-> PositionId(k), type |-> IMAGE, content |-> "data:text"],
     [id |-> PositionId(k), type |-> IMAGE, content |-> "blob:gone"]}

\* The documents of n such blocks, the block at position k one of ExportBlocks(k)
RECURSIVE ExportDocuments(_)
ExportDocuments(n) ==
    IF n = 0 THEN {<<>>}
    ELSE {Append(d, b) : d \in ExportDocuments(n - 1), b \in ExportBlocks(n)}

InitExport ==
    /\ blocks \in UNION {ExportDocuments(n) : n \in 0..MaxRun}
    /\ margin = 5
    /\ draggedBlockIndex = NullIndex
    /\ targetBlockIndex = NullIndex
    /\ editingBlockId = Null
    /\ gesture = Idle
    /\ last = Ran("init", "ok")
    /\ pending = {}
    /\ written = NoFile

NextExport ==
    \/ handleExportDocx
    \/ \E job \in pending : exportSettles(job)

SpecExport == InitExport /\ [][NextExport]_vars

\* Saves and exports that await their images while the user goes on: types
\* a text, deletes a block, moves the spacing, opens a project
MaxEdited == 2      \* blocks of a document that is edited meanwhile

\* The project the user opens meanwhile: a title, no margin
OpenedFile ==
    [parsed |-> "object", json |-> [version |-> 1, blocks |->
        <<[id |-> "id1", type |-> TITLE, content |-> "a"]>>]]

RECURSIVE StoredDocuments(_)
StoredDocuments(n) ==
    IF n = 0 THEN {<<>>}
    ELSE {Append(d, b) : d \in StoredDocuments(n - 1), b \in StoredBlocks(n)}

InitSnapshot ==
    /\ blocks \in UNION {StoredDocuments(n) : n \in 1..MaxEdited}
    /\ margin = 5
    /\ draggedBlockIndex = NullIndex
    /\ targetBlockIndex = NullIndex
    /\ editingBlockId = Null
    /\ gesture = Idle
    /\ last = Ran("init", "ok")
    /\ pending = {}
    /\ written = NoFile

NextSnapshot ==
    \/ handleSaveProject
    \/ handleExportDocx
    \/ \E job \in pending : saveSettles(job)
    \/ \E job \in pending : exportSettles(job)
    \/ \E index \in 0..(MaxEdited - 1), value \in TypedTexts :
          onChange(index, "content", value)
    \/ \E index \in 0..(MaxEdited - 1) : handleDelete(index)
    \/ onMarginChange(0)
    \/ handleLoadProject(OpenedFile)

SpecSnapshot == InitSnapshot /\ [][NextSnapshot]_vars

\* The pointer over the page during a drag of a block or of files
NextHover ==
    \/ \E index \in 0..(MaxLen - 1) : handleDragStart(index)
    \/ \E index \in 0..(MaxLen - 1), external \in BOOLEAN :
          handleDragOver(index, external)
    \/ \E external \in BOOLEAN : handleContainerDragOver(external)
    \/ handleDragEnd

SpecHover == InitDocuments /\ [][NextHover]_vars

\* Drags of a block while the user clicks into the inputs, types and leaves
\* them
NextFocus ==
    \/ \E index \in 0..(MaxLen - 1) : handleInputMouseDown(index)
    \/ handleInputBlur
    \/ \E index \in 0..(MaxLen - 1), field \in {"content", "subContent"},
          value \in TypedTexts : onChange(index, field, value)
    \/ \E index \in 0..(MaxLen - 1) : handleDragStart(index)
    \/ \E index \in 0..(MaxLen - 1) : handleDragOver(index, FALSE)
    \/ \E dropIndex \in 0..(MaxLen - 1) : handleBlockDrop(dropIndex)
    \/ handleContainerDrop
    \/ handleDragEnd

SpecFocus == InitDocuments /\ [][NextFocus]_vars

\* Drags of a block whose drop comes before the render of a queued update
NextBehind ==
    \/ \E index \in 0..(MaxLen - 1) : handleDragStart(index)
    \/ \E dropIndex \in 0..(MaxLen - 1), update \in QueuedUpdates :
          handleBlockDropBehind(dropIndex, update)
    \/ \E dropIndex \in 0..(MaxLen - 1) : handleBlockDrop(dropIndex)
    \/ handleContainerDrop
    \/ handleDragEnd

SpecBehind == InitDocuments /\ [][NextBehind]_vars

\* Clicks into the inputs while blocks are deleted and projects are opened.
\* The click on a delete button takes the focus from the input first, so
\* handleInputBlur has run before handleDelete; reader.onload of a project
\* load comes whenever the read ends.
NextEditing ==
    \/ \E index \in 0..(MaxLen - 1) : handleInputMouseDown(index)
    \/ handleInputBlur
    \/ \E index \in 0..(MaxLen - 1) : editingBlockId = Null /\ handleDelete(index)
    \/ \E file \in ProjectFiles : handleLoadProject(file)
    \/ \E index \in 0..(MaxLen - 1) : handleDragStart(index)
    \/ handleDragEnd

SpecEditing == InitDocuments /\ [][NextEditing]_vars

\* The spacing: the scrub of its label, its number field, and project loads
NextMargin ==
    \/ handleMarginScrub
    \/ \E dx \in ScrubDeltas : onScrubMouseMove(dx)
    \/ onScrubMouseUp
    \/ \E value \in TypedMargins : onMarginChange(value)
    \/ \E file \in ProjectFiles : handleLoadProject(file)

SpecMargin == Init /\ [][NextMargin]_vars

(***************************************************************************)
(* Properties.                                                             *)
(***************************************************************************)
\* A block without its annotation
Core(b) == [f \in DOMAIN b \ {"subContent"} |-> b[f]]

\* The same block, but for the annotation of a TEXT_ROW
SameButAnnotation(before, after) ==
    /\ Core(after) = Core(before)
    /\ before.type # TEXT_ROW => after = before

\* The images after position k of array and before its next TEXT_ROW
ImagesAfter(array, k) ==
    Cardinality({m \in (k + 1)..Len(array) :
        /\ array[m].type = IMAGE
        /\ \A n \in (k + 1)..(m - 1) : array[n].type # TEXT_ROW})

\* The drop of the dragged IMAGE i on the IMAGE j
SwapDrop(i, j) ==
    /\ handleBlockDrop(j)
    /\ draggedBlockIndex = i /\ i # j /\ i < Len(blocks)
    /\ blocks[i + 1].type = IMAGE /\ blocks[j + 1].type = IMAGE

\* C1 as the specification states it: a drop of the image at i on the image
\* at j gives the same sequence with the blocks at i and j exchanged, the
\* length and every other position unchanged.
C1_SwapLeavesOthersIdentical ==
    [][\A i, j \in 0..(MaxLen - 1) : SwapDrop(i, j) =>
          /\ Len(blocks') = Len(blocks)
          /\ blocks'[i + 1] = blocks[j + 1]
          /\ blocks'[j + 1] = blocks[i + 1]
          /\ \A k \in 1..Len(blocks) \ {i + 1, j + 1} : blocks'[k] = blocks[k]
      ]_vars

\* C1: a drop of the image at i on the image at j (i # j) keeps the length,
\* exchanges the blocks at i and j, and leaves at every other position the
\* same block, except that the annotation of every TEXT_ROW is the one the
\* recalculation derives for the new sequence, whatever it held before.
C1_SwapThenRecalculate ==
    [][\A i, j \in 0..(MaxLen - 1) : SwapDrop(i, j) =>
          /\ Len(blocks') = Len(blocks)
          /\ blocks'[i + 1] = blocks[j + 1]
          /\ blocks'[j + 1] = blocks[i + 1]
          /\ \A k \in 1..Len(blocks) \ {i + 1, j + 1} :
                SameButAnnotation(blocks[k], blocks'[k])
          /\ recalculateCounts(blocks') = blocks'
      ]_vars

\* The pictures 1 and 3 of [tall, row "a", short] exchanged by a drop, and
\* the row relabelled
C1_Swapped ==
    /\ last = Ran("handleBlockDrop", "swap")
    /\ blocks = <<[id |-> "id3", type |-> IMAGE, content |-> "blob:short"],
                  [id |-> "id2", type |-> TEXT_ROW, content |-> "xinwenben",
                   subContent |-> "haoping1ci"],
                  [id |-> "id1", type |-> IMAGE, content |-> "blob:tall"]>>

\* array without its element at position pos
Without(array, pos) ==
    [k \in 1..(Len(array) - 1) |-> IF k < pos THEN array[k] ELSE array[k + 1]]

\* The drop of the dragged block S on the block T, the two not both IMAGE
InsertDrop(S, T) ==
    /\ handleBlockDrop(T)
    /\ draggedBlockIndex = S /\ S # T /\ S < Len(blocks)
    /\ ~(blocks[S + 1].type = IMAGE /\ blocks[T + 1].type = IMAGE)

\* C2: a drop of block S on block T (S # T, not both images) puts the moved
\* block at index T-1 when S < T and at index T when S > T, immediately
\* before the block that was the target, and keeps the other blocks in their
\* order.
C2_InsertBeforeTarget ==
    [][\A S, T \in 0..(MaxLen - 1) : InsertDrop(S, T) =>
          LET at == IF S < T THEN T - 1 ELSE T
          IN  /\ Len(blocks') = Len(blocks)
              /\ SameButAnnotation(blocks[S + 1], blocks'[at + 1])
              /\ SameButAnnotation(blocks[T + 1], blocks'[at + 2])
              /\ \A k \in 1..(Len(blocks) - 1) :
                    SameButAnnotation(Without(blocks, S + 1)[k],
                                      Without(blocks', at + 1)[k])
      ]_vars

\* The title 1 of [title, picture, row] dropped on the row 3: it sits at
\* index 1, before the row
C2_Inserted ==
    /\ last = Ran("handleBlockDrop", "insert")
    /\ Len(blocks) = 3
    /\ blocks[1].id = "id2" /\ blocks[1].type = IMAGE
    /\ blocks[2].id = "id1" /\ blocks[2].type = TITLE
    /\ blocks[3].id = "id3" /\ blocks[3].type = TEXT_ROW

\* The new blocks made of items stand from index T on in the order of
\* items, after the blocks that were before T and before those that were at
\* T and after
SplicedAt(T, items) ==
    LET n == Len(items)
    IN  /\ Len(blocks') = Len(blocks) + n
        /\ \A k \in 1..T : SameButAnnotation(blocks[k], blocks'[k])
        /\ \A k \in 1..n :
              /\ DOMAIN blocks'[T + k] = {"id", "type", "content"}
              /\ blocks'[T + k].type = IMAGE
              /\ blocks'[T + k].content = items[k].url
              /\ blocks'[T + k].id \in Ids
        /\ \A k \in (T + 1)..Len(blocks) :
              SameButAnnotation(blocks[k], blocks'[k + n])

\* C3 as the specification states it: every file dropped on block T becomes
\* an IMAGE block, the new blocks standing from index T on in file order and
\* the blocks from T on shifted by the number of files; files dropped on the
\* background are appended in file order.
C3_EveryFileBecomesABlock ==
    [][last'.op \in {"handleBlockDropFiles", "handleContainerDropFiles"} =>
          SplicedAt(last'.index, last'.files)
      ]_vars

\* C3: of the files dropped on block T, those whose type starts with image/
\* become IMAGE blocks, standing from index T on in file order, the blocks
\* from T on shifted by the number of image files; dropped on the
\* background they are appended in file order.  The other files are ignored.
C3_ImageFilesBecomeBlocks ==
    [][last'.op \in {"handleBlockDropFiles", "handleContainerDropFiles"} =>
          SplicedAt(last'.index, SelectSeq(last'.files, IsImageFile))
      ]_vars

\* Two pictures dropped at index 1 of [title, row]: four blocks, the
\* pictures at 1 and 2
C3_TwoFilesDropped ==
    /\ last.op = "handleBlockDropFiles" /\ last.index = 1 /\ Len(last.files) = 2
    /\ Len(blocks) = 4
    /\ blocks[1].id = "id1" /\ blocks[1].type = TITLE
    /\ blocks[2].type = IMAGE /\ blocks[2].content = "blob:tall"
    /\ blocks[3].type = IMAGE /\ blocks[3].content = "blob:short"
    /\ blocks[4].id = "id2" /\ blocks[4].type = TEXT_ROW
    /\ blocks[4].subContent = "haoping0ci"

\* C4: recalculateCounts is idempotent: applied to what it returned, for any
\* array of blocks, it returns the same array.
C4_RecalculateIdempotent ==
    last.op = "recalculateCounts" => recalculateCounts(blocks) = blocks

\* What recalculateCounts returned for [row "a", picture, picture]
C4_Recalculated ==
    /\ last.op = "recalculateCounts"
    /\ blocks = <<[id |-> "id1", type |-> TEXT_ROW, content |-> "xinwenben",
                   subContent |-> "haoping2ci"],
                  [id |-> "id2", type |-> IMAGE, content |-> "blob:tall"],
                  [id |-> "id2", type |-> IMAGE, content |-> "blob:tall"]>>

\* C5: after recalculateCounts the annotation of every TEXT_ROW holds the
\* number of IMAGE blocks after it and before the next TEXT_ROW, titles in
\* between not ending the run.
C5_CountsImagesOfTheRun ==
    \A k \in 1..Len(blocks) :
        blocks[k].type = TEXT_ROW =>
            recalculateCounts(blocks)[k].subContent = CountLabel(ImagesAfter(blocks, k))

\* The handlers that add, remove or move a block
StructuralHandlers ==
    {"handleImageUpload", "addTextRow", "addTitleRow", "handleDelete",
     "handleBlockDropFiles", "handleContainerDropFiles"}

\* C6: right after a handler that changed the membership or the order of
\* the blocks, the subContent of every TEXT_ROW is the count label the
\* recalculation derives for the new sequence.
C6_StructuralChangeRecalculates ==
    (\/ last.op \in StructuralHandlers
     \/ last \in {Ran("handleBlockDrop", "swap"), Ran("handleBlockDrop", "insert")}
     \/ last = Ran("handleContainerDrop", "ok"))
    => \A k \in 1..Len(blocks) :
          blocks[k].type = TEXT_ROW =>
              /\ Has(blocks[k], "subContent")
              /\ blocks[k].subContent = recalculateCounts(blocks)[k].subContent

\* C7: the height a crop drag commits on mouseup is at least 50 and at most
\* the height the picture renders at.
C7_CommittedHeightWithinPicture ==
    [][last'.op = "onMouseUp" =>
          \A k \in 1..Len(blocks') :
              (blocks'[k].id = gesture.id /\ blocks'[k].type = IMAGE) =>
                  /\ Has(blocks'[k], "height")
                  /\ 50 <= blocks'[k].height
                  /\ blocks'[k].height <= NaturalRenderedHeight(blocks'[k].content)
      ]_vars

\* C8: in every state, the height of an IMAGE block that has one is above 0
\* and at most the height the picture renders at.
C8_StoredHeightWithinPicture ==
    \A k \in 1..Len(blocks) :
        (blocks[k].type = IMAGE /\ Has(blocks[k], "height")) =>
            /\ 0 < blocks[k].height
            /\ blocks[k].height <= NaturalRenderedHeight(blocks[k].content)

\* C9: a load of a file that is not a well-formed object, or has no blocks
\* field, shows the alert and leaves blocks and margin as they were.
C9_BadFileAlertsAndChangesNothing ==
    [][\A file \in ProjectFiles :
          (/\ handleLoadProject(file)
           /\ file.parsed # "object" \/ ~Has(file.json, "blocks"))
          => /\ last'.outcome = "alert"
             /\ blocks' = blocks
             /\ margin' = margin
      ]_vars

\* A load that went through: the file is an object with a blocks field and
\* nothing threw
LoadsBlocks(file) ==
    /\ handleLoadProject(file)
    /\ last'.outcome = "ok"
    /\ Has(file.json, "blocks")

\* C10 as the specification states it: after a successful load blocks is
\* recalculateCounts of the blocks of the file and margin is the margin of
\* the file.
C10_LoadReplacesBlocksAndMargin ==
    [][\A file \in ProjectFiles : LoadsBlocks(file) =>
          /\ blocks' = recalculateCounts(file.json.blocks)
          /\ Has(file.json, "margin") /\ margin' = file.json.margin
      ]_vars

\* C10: after a successful load blocks is recalculateCounts of the blocks of
\* the file, nothing of the previous blocks surviving, and margin is the
\* margin of the file when the file has one; when it has none, margin is
\* what it was before the load.
C10_LoadReplacesBlocksAndGivenMargin ==
    [][\A file \in ProjectFiles : LoadsBlocks(file) =>
          /\ blocks' = recalculateCounts(file.json.blocks)
          /\ margin' = IF Has(file.json, "margin") THEN file.json.margin ELSE margin
      ]_vars

\* The file of a row labelled 7 and a picture, loaded: the row is relabelled
\* and the margin is the file's
C10_Loaded ==
    /\ last = Ran("handleLoadProject", "ok")
    /\ margin = 10
    /\ blocks = <<[id |-> "id1", type |-> TEXT_ROW, content |-> "a",
                   subContent |-> "haoping1ci"],
                  [id |-> "id2", type |-> IMAGE, content |-> "data:tall",
                   height |-> 80]>>

\* The URL of a picture once it is resolved to its self-contained form
Resolved(url) == IF IsDataUrl(url) THEN url ELSE readAsDataURL(url)

\* Block b with the URL of a picture resolved
WithResolved(b) ==
    IF b.type = IMAGE THEN [b EXCEPT !.content = Resolved(b.content)] ELSE b

\* C11 as the specification states it: loading the file saved from a
\* document gives the blocks of the document, in their order and with every
\* field as it was but the URL of a picture, which is resolved, and the
\* margin of the document.
C11_RoundTripKeepsEveryField ==
    [][loadWritten =>
          /\ Len(blocks') = Len(written.job.blocks)
          /\ \A k \in 1..Len(blocks') : blocks'[k] = WithResolved(written.job.blocks[k])
          /\ margin' = written.job.margin
      ]_vars

\* C11: loading the file saved from a document gives the blocks of the
\* document, in their order and with id, type, content and height as they
\* were but the URL of a picture, which is resolved, and the margin of the
\* document; the subContent of every TEXT_ROW is the label the
\* recalculation derives, whatever the document held.
C11_RoundTripButAnnotations ==
    [][loadWritten =>
          /\ Len(blocks') = Len(written.job.blocks)
          /\ \A k \in 1..Len(blocks') :
                SameButAnnotation(WithResolved(written.job.blocks[k]), blocks'[k])
          /\ recalculateCounts(blocks') = blocks'
          /\ margin' = written.job.margin
      ]_vars

\* [row "a", cropped picture] with margin 0, saved and loaded back
C11_LoadedBack ==
    /\ last = Ran("handleLoadProject", "ok")
    /\ written.kind = "json"
    /\ margin = 0 /\ written.job.margin = 0
    /\ written.job.blocks =
          <<[id |-> "id1", type |-> TEXT_ROW, content |-> "xinwenben", subContent |-> "a"],
            [id |-> "id2", type |-> IMAGE, content |-> "blob:tall", height |-> 80]>>
    /\ blocks =
          <<[id |-> "id1", type |-> TEXT_ROW, content |-> "xinwenben",
             subContent |-> "haoping1ci"],
            [id |-> "id2", type |-> IMAGE, content |-> "data:tall", height |-> 80]>>

\* The picture b cannot be resolved
Unresolvable(b) ==
    b.type = IMAGE /\ ~IsDataUrl(b.content) /\ FetchRejects(b.content)

\* C12: a save that settles writes no file when a picture of its document
\* cannot be resolved; otherwise the file holds version 1, the margin and
\* the blocks of the document in their order, the content of every IMAGE a
\* data: URL and its other fields as they were, every other block as it
\* was.
C12_SavedFileIsPortable ==
    [][\A job \in pending : saveSettles(job) =>
          IF \E k \in 1..Len(job.blocks) : Unresolvable(job.blocks[k])
          THEN written' = written
          ELSE /\ written'.kind = "json"
               /\ DOMAIN written'.file.json = {"version", "margin", "blocks"}
               /\ written'.file.json.version = 1
               /\ written'.file.json.margin = job.margin
               /\ Len(written'.file.json.blocks) = Len(job.blocks)
               /\ \A k \in 1..Len(job.blocks) :
                     LET b == job.blocks[k]
                         saved == written'.file.json.blocks[k]
                     IN  IF b.type = IMAGE
                         THEN /\ IsDataUrl(saved.content)
                              /\ [saved EXCEPT !.content = b.content] = b
                         ELSE saved = b
      ]_vars

\* The file of [title, picture of this session]: the picture is a data: URL
C12_Saved ==
    /\ last = Ran("saveSettles", "written")
    /\ written.job.blocks =
          <<[id |-> "id1", type |-> TITLE, content |-> "biaoyangbiao"],
            [id |-> "id2", type |-> IMAGE, content |-> "blob:tall", height |-> 80]>>
    /\ written.file.json.blocks =
          <<[id |-> "id1", type |-> TITLE, content |-> "biaoyangbiao"],
            [id |-> "id2", type |-> IMAGE, content |-> "data:tall", height |-> 80]>>

\* No block has the id
Unknown(id) == \A k \in 1..Len(blocks) : blocks[k].id # id

\* C13: updateBlock and removeBlock with an id that no block has raise
\* nothing and leave the blocks, the subContent of every TEXT_ROW included,
\* and the margin exactly as they were.
C13_UnknownIdChangesNothing ==
    [][\A id \in HeldIds :
          (/\ Unknown(id)
           /\ \/ removeBlock(id)
              \/ \E updates \in {[content |-> "a"], [subContent |-> "a"],
                                 [height |-> 50]} : onUpdate(id, updates))
          => /\ blocks' = blocks
             /\ margin' = margin
             /\ last'.outcome = "ok"
      ]_vars

\* C14: in every state no two blocks have the same id.
C14_IdsAreUnique ==
    \A i, j \in 1..Len(blocks) : i # j => blocks[i].id # blocks[j].id

\* The least index of a non-empty set of indices
First(indices) == CHOOSE k \in indices : \A n \in indices : k <= n

\* The blocks of array of the type whose text is not empty and not the
\* placeholder
WithText(array, type, placeholder) ==
    {k \in 1..Len(array) :
        array[k].type = type /\ array[k].content # "" /\ array[k].content # placeholder}

\* The blocks of array of the type whose text has a character that is not a
\* space and is not the placeholder
WithVisibleText(array, type, placeholder) ==
    {k \in WithText(array, type, placeholder) :
        \E n \in 1..Len(Chars(array[k].content)) : Chars(array[k].content)[n] # " "}

\* name is chars without the spaces around it, each reserved character
\* replaced by an underscore
IsCleaned(name, chars) ==
    \E i \in 1..Len(chars) : \E j \in i..Len(chars) :
        /\ chars[i] # " " /\ chars[j] # " "
        /\ \A n \in 1..(i - 1) : chars[n] = " "
        /\ \A n \in (j + 1)..Len(chars) : chars[n] = " "
        /\ Len(name) = j - i + 1
        /\ \A n \in 1..Len(name) :
              name[n] = IF chars[i + n - 1] \in Reserved THEN "_" ELSE chars[i + n - 1]

\* A save of the document job.blocks writes its file under written'.name
WritesFile(job) ==
    /\ saveSettles(job)
    /\ last'.outcome = "written"

\* C15 as the specification states it: the file name is the text of the
\* first TITLE whose text is not empty and not the placeholder; with no such
\* title, the text of the first TEXT_ROW whose text is not empty and not the
\* placeholder; otherwise layout-project; and it holds no reserved
\* character.
C15_NameIsTheText ==
    [][\A job \in pending : WritesFile(job) =>
          LET titles == WithText(job.blocks, TITLE, "wendangbiaoti")
              rows == WithText(job.blocks, TEXT_ROW, "xinwenben")
          IN  /\ written'.name =
                    IF titles # {} THEN Chars(job.blocks[First(titles)].content)
                    ELSE IF rows # {} THEN Chars(job.blocks[First(rows)].content)
                    ELSE <<"layout-project">>
              /\ \A n \in 1..Len(written'.name) : written'.name[n] \notin Reserved
      ]_vars

\* C15: the file name is made of the text of the first TITLE whose text has
\* a character that is not a space and is not the placeholder; with no such
\* title, of the text of the first TEXT_ROW whose text has one and is not
\* the placeholder: the text without the spaces around it and with an
\* underscore for each reserved character.  Otherwise it is layout-project.
\* It holds no reserved character.
C15_NameIsTheCleanedText ==
    [][\A job \in pending : WritesFile(job) =>
          LET titles == WithVisibleText(job.blocks, TITLE, "wendangbiaoti")
              rows == WithVisibleText(job.blocks, TEXT_ROW, "xinwenben")
          IN  /\ IF titles # {}
                 THEN IsCleaned(written'.name, Chars(job.blocks[First(titles)].content))
                 ELSE IF rows # {}
                 THEN IsCleaned(written'.name, Chars(job.blocks[First(rows)].content))
                 ELSE written'.name = <<"layout-project">>
              /\ \A n \in 1..Len(written'.name) : written'.name[n] \notin Reserved
      ]_vars

\* [row "a", title with the placeholder, title "a/b"] saved as a_b
C15_Named ==
    /\ last = Ran("saveSettles", "written")
    /\ Len(written.job.blocks) = 3
    /\ written.job.blocks[1].type = TEXT_ROW /\ written.job.blocks[1].content = "a"
    /\ written.job.blocks[2].type = TITLE
    /\ written.job.blocks[2].content = "wendangbiaoti"
    /\ written.job.blocks[3].type = TITLE /\ written.job.blocks[3].content = "a/b"
    /\ written.name = <<"a", "_", "b">>

\* An IMAGE block is at position i of array
IsImageAt(array, i) == i \in 1..Len(array) /\ array[i].type = IMAGE

\* The runs of consecutive IMAGE blocks of array, as <<first, last>>
ImageRuns(array) ==
    {run \in (1..Len(array)) \X (1..Len(array)) :
        /\ run[1] <= run[2]
        /\ \A i \in run[1]..run[2] : IsImageAt(array, i)
        /\ ~IsImageAt(array, run[1] - 1)
        /\ ~IsImageAt(array, run[2] + 1)}

\* The positions of the 1st, 3rd, 5th ... image of every run: ceil(k/2) of
\* a run of k
LeftPositions(array) ==
    UNION {{run[1] + 2 * (r - 1) : r \in 1..((run[2] - run[1] + 2) \div 2)} :
              run \in ImageRuns(array)}

\* The r-th of them in the order of the sequence
NthLeft(array, r) ==
    CHOOSE i \in LeftPositions(array) :
        Cardinality({j \in LeftPositions(array) : j < i}) = r - 1

IsTable(c) == c.child = "table"

\* C16: the two-column rows of an exported document are, in order, the
\* rows of the runs of consecutive Image blocks: a run of k images gives
\* ceil(k/2) rows, each holding the 1st, 3rd, ... image of the run on the
\* left and the image after it on the right, or a blank right column when
\* the run ends there; the document holds as many image cells as there are
\* Image blocks.
C16_ImagesPairInRows ==
    written.kind = "docx" =>
        LET B == written.job.blocks
            T == SelectSeq(written.file.children, IsTable)
        IN  /\ Len(T) = Cardinality(LeftPositions(B))
            /\ \A r \in 1..Len(T) :
                   LET i == NthLeft(B, r)
                   IN  /\ T[r].left = ImageCell(B[i])
                       /\ T[r].right = IF IsImageAt(B, i + 1)
                                       THEN ImageCell(B[i + 1])
                                       ELSE EmptyCell
            /\ Cardinality({c \in (1..Len(T)) \X {"left", "right"} :
                               T[c[1]][c[2]].cell = "image"})
                   = Cardinality({i \in 1..Len(B) : IsImageAt(B, i)})

\* A run of five images was exported: three rows, the right column of the
\* last one blank
C16_FiveImagesExported ==
    /\ written.kind = "docx"
    /\ Len(written.job.blocks) = 5
    /\ \A i \in 1..5 : IsImageAt(written.job.blocks, i)
    /\ written.job.blocks[1].content # written.job.blocks[2].content
    /\ LET T == SelectSeq(written.file.children, IsTable)
       IN  Len(T) = 3 /\ T[3].right = EmptyCell /\ T[2].right # EmptyCell

\* C17: an export that settles has saved the document, whatever became of
\* its images
C17_ExportAlwaysSaves ==
    last.op = "exportSettles" => last.outcome = "written" /\ written.kind = "docx"

\* File w is what a save or an export of the blocks and the margin of job
\* writes
IsOutputOf(w, job) ==
    /\ w.name = getSmartFilename(job.blocks)
    /\ IF job.kind = "save"
       THEN /\ w.kind = "json"
            /\ w.file.json.margin = job.margin
            /\ Len(w.file.json.blocks) = Len(job.blocks)
            /\ \A k \in 1..Len(job.blocks) :
                   w.file.json.blocks[k] = WithResolved(job.blocks[k])
       ELSE /\ w.kind = "docx"
            /\ w.file.children = docChildren(job.blocks, 1, job.margin)

\* C18: a save or an export takes the blocks and the margin of the moment
\* it starts; the file it writes when it settles is the output of those,
\* whatever was edited, deleted, loaded or started meanwhile; and no step of
\* a save or an export changes the blocks or the margin.
C18_OutputIsOfTheSnapshot ==
    [][/\ \A job \in pending' \ pending :
              job.blocks = blocks /\ job.margin = margin
       /\ \A job \in pending \ pending' :
              \/ last'.outcome = "alert" /\ written' = written
              \/ last'.outcome = "written" /\ IsOutputOf(written', job)
       /\ (pending' # pending \/ written' # written)
              => blocks' = blocks /\ margin' = margin]_vars

\* A save wrote the file of a document that was changed after the save
\* started, spacing included
C18_StaleFileWritten ==
    /\ last = Ran("saveSettles", "written")
    /\ written.job.blocks # blocks
    /\ Len(written.job.blocks) = 2
    /\ written.job.margin # margin
    /\ \E job \in pending : job.kind = "export" /\ job.blocks # written.job.blocks

\* C19: a dragover of a block or of the background, during a drag of a block
\* or of files, leaves the blocks, the margin and the index of the dragged
\* block as they were.
C19_HoverKeepsTheDocument ==
    [][last'.op \in {"handleDragOver", "handleContainerDragOver"}
           => /\ blocks' = blocks
              /\ margin' = margin
              /\ draggedBlockIndex' = draggedBlockIndex]_vars

\* The first block of three is dragged over the third
C19_HoveredOverAnother ==
    /\ last.op = "handleDragOver"
    /\ Len(blocks) = 3
    /\ draggedBlockIndex = 0
    /\ targetBlockIndex = 2

\* C20: the drop of a dragged block on itself leaves the blocks as they
\* were, annotations included, and ends the drag: no dragged index, no
\* target index.
C20_SelfDropChangesNothing ==
    [][\A index \in 0..(MaxLen - 1) :
           draggedBlockIndex = index /\ handleBlockDrop(index)
               => /\ blocks' = blocks
                  /\ draggedBlockIndex' = NullIndex
                  /\ targetBlockIndex' = NullIndex
                  /\ gesture' = Idle]_vars

\* A block was dropped on itself in a document with a row the user annotated
C20_DroppedOnItself ==
    /\ last = Ran("handleBlockDrop", "ok")
    /\ gesture = Idle
    /\ draggedBlockIndex = NullIndex
    /\ \E k \in 1..Len(blocks) :
           blocks[k].type = TEXT_ROW /\ blocks[k].subContent = "a"

\* The handlers that end a gesture: the drops and the dragend
GestureEnds ==
    {"handleBlockDrop", "handleBlockDropFiles", "handleContainerDrop",
     "handleContainerDropFiles", "handleDragEnd"}

\* C21: after a drop or a dragend no index is left: neither the index of
\* the dragged block nor the index of the block under the pointer.
C21_GestureEndsWithNoIndex ==
    last.op \in GestureEnds
        => draggedBlockIndex = NullIndex /\ targetBlockIndex = NullIndex

\* C22: while a block is edited no drag begins, of that block or of
\* another: the index of the dragged block stays null and the gesture idle,
\* and the edited block stays at its position.
C22_NoDragWhileEditing ==
    [][editingBlockId # Null
           => /\ draggedBlockIndex' = NullIndex
              /\ gesture'.kind = "idle"
              /\ Len(blocks') = Len(blocks)
              /\ \A k \in 1..Len(blocks) :
                     blocks[k].id = editingBlockId => blocks'[k].id = editingBlockId]_vars

\* A dragstart was rejected while the second block of three was edited
C22_DragRejected ==
    /\ last = Ran("handleDragStart", "rejected")
    /\ Len(blocks) = 3
    /\ editingBlockId = blocks[2].id
    /\ draggedBlockIndex = NullIndex

\* C23: the drop of a dragged block on another block is a swap exactly when
\* the block at the source index and the block at the drop index are both
\* Images at the drop, and an insert otherwise, whatever was hovered before;
\* and the feedback the render shows on the hovered target is the swap box
\* exactly when the drop on it is a swap, the insert line when it is an
\* insert.
C23_DropIsWhatTheFeedbackShows ==
    [][\A T \in 0..(MaxLen - 1) :
           LET S == draggedBlockIndex
           IN  (handleBlockDrop(T) /\ S # NullIndex /\ S # T /\ S < Len(blocks))
                   => /\ last'.outcome =
                             IF blocks[S + 1].type = IMAGE /\ blocks[T + 1].type = IMAGE
                             THEN "swap" ELSE "insert"
                      /\ targetBlockIndex = T
                             => visualClass(blocks, S, targetBlockIndex, T) =
                                    IF last'.outcome = "swap"
                                    THEN "border-2 border-blue-500 rounded-sm scale-[1.02] z-10"
                                    ELSE "border-t-[4px] border-green-500 pt-0"]_vars

\* An Image was dragged across a Title and dropped on another Image: a swap
C23_SwappedAcrossATitle ==
    /\ last = Ran("handleBlockDrop", "swap")
    /\ Len(blocks) = 3
    /\ blocks[1].type = IMAGE /\ blocks[2].type = TITLE /\ blocks[3].type = IMAGE
    /\ blocks[1].content # blocks[3].content

\* C24: recalculateCounts returns as many blocks as it was given, each with
\* the id, type, content and height of the block at its place; a block that
\* is no TextRow is returned as it is, and so is a TextRow that holds the
\* annotation recalculateCounts derives for it.
C24_RecalculateChangesAnnotationsOnly ==
    [][last'.op = "recalculateCounts"
           => /\ Len(blocks') = Len(blocks)
              /\ \A k \in 1..Len(blocks) :
                     /\ Core(blocks'[k]) = Core(blocks[k])
                     /\ blocks[k].type # TEXT_ROW => blocks'[k] = blocks[k]
                     /\ (/\ Has(blocks[k], "subContent")
                         /\ blocks[k].subContent = blocks'[k].subContent)
                            => blocks'[k] = blocks[k]]_vars

\* What recalculateCounts returned for [cropped picture, row with an old
\* label, picture]
C24_RecalculatedAroundARow ==
    /\ last.op = "recalculateCounts"
    /\ blocks = <<[id |-> "id1", type |-> IMAGE, content |-> "blob:tall", height |-> 80],
                  [id |-> "id2", type |-> TEXT_ROW, content |-> "xinwenben",
                   subContent |-> "haoping1ci"],
                  [id |-> "id1", type |-> IMAGE, content |-> "blob:tall"]>>

\* C25: the index of the dragged block, when there is one, is the index of
\* a block of the sequence.
C25_SourceIndexDesignatesABlock ==
    draggedBlockIndex # NullIndex => draggedBlockIndex \in 0..(Len(blocks) - 1)

\* How many blocks of array are b, annotation aside
Copies(array, b) == Cardinality({k \in 1..Len(array) : Core(array[k]) = Core(b)})

\* after holds the blocks of before, each as often, annotations aside
IsPermutationOf(after, before) ==
    /\ Len(after) = Len(before)
    /\ \A k \in 1..Len(before) : Copies(after, before[k]) = Copies(before, before[k])

\* C26: the blocks after a drop of a dragged block, on a block or on the
\* background, are the blocks of the sequence the updater of the drop was
\* applied to, in another order: none lost, none twice, none in an older
\* state.
C26_DropPermutes ==
    [][(/\ last'.op \in {"handleBlockDrop", "handleContainerDrop"}
        /\ last'.outcome \in {"swap", "insert", "ok"}
        /\ gesture.kind = "drag")
           => IsPermutationOf(blocks', IF Has(last', "prev") THEN last'.prev ELSE blocks)]_vars

\* C27: the drop of the dragged block S on the background, S the index of
\* a block, gives the sequence without that block followed by that block,
\* recalculated: as many blocks, the others in their order, the moved block
\* last.
C27_BackgroundDropMovesToTheEnd ==
    [][\A S \in 0..(MaxLen - 1) :
           (handleContainerDrop /\ draggedBlockIndex = S /\ S < Len(blocks))
               => /\ blocks' = recalculateCounts(Without(blocks, S + 1)
                                                   \o <<blocks[S + 1]>>)
                  /\ Len(blocks') = Len(blocks)
                  /\ SameButAnnotation(blocks[S + 1], blocks'[Len(blocks)])
                  /\ \A k \in 1..(Len(blocks) - 1) :
                         SameButAnnotation(Without(blocks, S + 1)[k], blocks'[k])]_vars

\* The row 1 of [row, picture, title] was dropped on the background: it is
\* last and counts no picture
C27_RowMovedToTheEnd ==
    /\ last = Ran("handleContainerDrop", "ok")
    /\ Len(blocks) = 3
    /\ blocks[1].type = IMAGE /\ blocks[1].id = "id2"
    /\ blocks[2].type = TITLE /\ blocks[2].id = "id3"
    /\ blocks[3].type = TEXT_ROW /\ blocks[3].id = "id1"
    /\ blocks[3].subContent = "haoping0ci"

\* The drop of the dragged block S on another block T
BlockDrop(S, T) ==
    /\ handleBlockDrop(T)
    /\ draggedBlockIndex = S /\ S # T /\ S < Len(blocks)

\* C28 as the specification states it: only a drop on the background moves
\* a block to the end, so no drop of block S on a block T leaves the dragged
\* block last, unless it was last.
C28_BlockDropNeverMovesToTheEnd ==
    [][\A S, T \in 0..(MaxLen - 1) :
           (BlockDrop(S, T) /\ S # Len(blocks) - 1)
               => ~SameButAnnotation(blocks[S + 1], blocks'[Len(blocks')])]_vars

\* C28: an insert drop of block S on block T leaves last the block that was
\* last among the others, so never the moved block; and with T = S + 1 it
\* leaves every block at its place.
C28_InsertNeverMovesToTheEnd ==
    [][\A S, T \in 0..(MaxLen - 1) : InsertDrop(S, T) =>
           /\ Len(blocks') = Len(blocks)
           /\ SameButAnnotation(Without(blocks, S + 1)[Len(blocks) - 1],
                                blocks'[Len(blocks)])
           /\ T = S + 1 =>
                  \A k \in 1..Len(blocks) : SameButAnnotation(blocks[k], blocks'[k])]_vars

\* The title 1 of [title, picture, row] was dropped on the row, the last
\* block: the row is still last
C28_InsertedBeforeTheLast ==
    /\ last = Ran("handleBlockDrop", "insert")
    /\ Len(blocks) = 3
    /\ blocks[1].type = IMAGE /\ blocks[1].id = "id2"
    /\ blocks[2].type = TITLE /\ blocks[2].id = "id1"
    /\ blocks[3].type = TEXT_ROW /\ blocks[3].id = "id3"

\* C29: the id of the edited block, when there is one, is the id of a block
\* of the sequence.
C29_EditedBlockIsPresent ==
    editingBlockId # Null => \E k \in 1..Len(blocks) : blocks[k].id = editingBlockId

\* C30: the margin is a number from 0 to 50.
C30_MarginInRange == margin \in 0..50

====
